---- MODULE Spec2Model ----
(***************************************************************************)
(* Model of the intelligent commit splitter                                *)
(*   backend/intelligent_commit_splitter.py  (extractor, grouping engine,  *)
(*                                            narrator, executor)          *)
(*   backend/tool_calling.py                 (threshold gate, the tools    *)
(*                                            intelligent_commit_split and *)
(*                                            commit_and_push)             *)
(*                                                                         *)
(* Text is modelled structurally: a path is its sequence of segments plus  *)
(* its suffix, a line of text is a sequence of one-character strings or of *)
(* tokens, a file content is a named blob.                                 *)
(***************************************************************************)
EXTENDS Integers, Sequences, FiniteSets, TLC

\* ------------------------------------------------------------------------
\* Bounds of the model
\* ------------------------------------------------------------------------
\* largest number of changed paths of one checkout
MaxChanged == 2
\* largest number of subcommands that fail during one extraction
MaxFaults == 2
\* largest number of files of a working tree given to the threshold gate
MaxGateFiles == 5

VARIABLES
  \* a grouping run: get_git_diff_files, then group_changes_heuristic
  g_pc, g_names, g_changes, g_groups,
  g_reply,             \* what the narrator answered in this run
  g_search,            \* what the memory search answered to each query
  g_summary,           \* the semantic_summary of the analysis
  g_calls,             \* the arguments of the narrator's calls
  \* an extraction run: extract_changes
  x_pc, x_checkout, x_faults, x_names, x_files, x_procs, x_changes,
  \* a run of the threshold gate: _check_changes_threshold_implementation
  t_pc, t_tree, t_threshold, t_report,
  \* a run of the executor: execute_commit_splitting
  pc,                  \* the position in execute_commit_splitting
  checkout,            \* HEAD tree, staging area and files on disk
  refs,                \* branch name -> commit
  on,                  \* the checked-out branch, "HEAD" when detached
  at,                  \* the checked-out commit
  history,             \* the commits created since the run started
  remote,              \* branch name -> commit, as pushed to origin
  commit_groups, auto_push,                      \* the arguments
  current_branch, successful_commits, i, j,      \* the locals
  result,              \* the return value, <<>> while running
  out,                 \* the lines printed
  cmds,                \* the subcommands issued, with their return codes
  \* a call of a tool of GPTOSSToolCaller
  c_pc,                \* the position in the tool's implementation
  c_args,              \* the arguments of the call
  c_env,               \* the API keys that are set and the state of git
  c_cmds,              \* the subcommands the tool itself issued
  c_result             \* the dictionary returned, <<>> while running

gvars == <<g_pc, g_names, g_changes, g_groups, g_reply, g_search, g_summary,
          g_calls>>
xvars == <<x_pc, x_checkout, x_faults, x_names, x_files, x_procs, x_changes>>
tvars == <<t_pc, t_tree, t_threshold, t_report>>
evars == <<pc, checkout, refs, on, at, history, remote, commit_groups,
           auto_push, current_branch, successful_commits, i, j, result, out,
           cmds>>
cvars == <<c_pc, c_args, c_env, c_cmds, c_result>>
vars == <<gvars, xvars, tvars, evars, cvars>>

\* ------------------------------------------------------------------------
\* Generic helpers
\* ------------------------------------------------------------------------
RECURSIVE SumSeq(_)
SumSeq(s) == IF s = <<>> THEN 0 ELSE Head(s) + SumSeq(Tail(s))

RECURSIVE SeqConcat(_)
SeqConcat(ss) == IF ss = <<>> THEN <<>> ELSE Head(ss) \o SeqConcat(Tail(ss))

Range(s) == {s[k] : k \in 1..Len(s)}

\* Optional values: Python's None is the empty tuple, a value x is <<x>>
None == <<>>
Some(x) == <<x>>

\* ------------------------------------------------------------------------
\* Paths: pathlib.Path(p).parts and pathlib.Path(p).suffix
\* ------------------------------------------------------------------------
MkPath(parts, suffix) == [parts |-> parts, suffix |-> suffix]

\* the paths of the modelled checkout, in the byte order git lists them
PathPool ==
  << MkPath(<<"Makefile">>, ""),
     MkPath(<<"README.md">>, ".md"),
     MkPath(<<"SRC", "Main.PY">>, ".PY"),
     MkPath(<<"docs", "guide.md">>, ".md"),
     MkPath(<<"src", "app.py">>, ".py"),
     MkPath(<<"tests">>, ""),
     MkPath(<<"util.py">>, ".py") >>

\* str.lower() on the strings that occur in PathPool
Lower(s) ==
  CASE s = "SRC" -> "src"
    [] s = "Main.PY" -> "main.py"
    [] s = ".PY" -> ".py"
    [] s = "Makefile" -> "makefile"
    [] s = "README.md" -> "readme.md"
    [] OTHER -> s

\* ------------------------------------------------------------------------
\* FileChange and CommitGroup
\* ------------------------------------------------------------------------
FileChange(file_path, change_type, before_content, after_content, diff_content, total_lines_added, total_lines_removed) ==
  [file_path |-> file_path, change_type |-> change_type,
   before_content |-> before_content, after_content |-> after_content,
   diff_content |-> diff_content,
   total_lines_added |-> total_lines_added,
   total_lines_removed |-> total_lines_removed]

CommitGroup(feature_name, files, commit_title, commit_message) ==
  [feature_name |-> feature_name,
   description |-> <<"Changes related to ", feature_name>>,
   files |-> files,
   commit_title |-> commit_title, commit_message |-> commit_message]

\* ------------------------------------------------------------------------
\* Grouping engine
\* ------------------------------------------------------------------------
determine_group_key(file_path) ==
  LET path_parts == file_path.parts
      top_dir == Lower(path_parts[1])
      file_ext == Lower(file_path.suffix)
      byDir ==
        IF Len(path_parts) > 1
        THEN CASE top_dir \in {"frontend", "client", "ui", "src", "components"}
                    -> "frontend"
               [] top_dir \in {"backend", "server", "api", "services"}
                    -> "backend"
               [] top_dir \in {"docs", "documentation", "readme"}
                    -> "documentation"
               [] top_dir \in {"tests", "test", "spec"} -> "testing"
               [] top_dir \in {"config", "conf", "settings"} -> "configuration"
               [] top_dir \in {"scripts", "tools", "utils"} -> "utilities"
               [] OTHER -> ""
        ELSE ""
  IN IF byDir # "" THEN byDir
     ELSE IF file_ext \in {".py", ".js", ".ts", ".jsx", ".tsx", ".java",
                           ".cpp", ".c"} THEN "code"
     ELSE IF file_ext \in {".md", ".txt", ".rst"} THEN "documentation"
     ELSE IF file_ext \in {".json", ".yaml", ".yml", ".toml", ".ini"}
          THEN "configuration"
     ELSE "other"

\* the narrator: reply.raised tells that the call raised; reply.lines are
\* the stripped lines of the reply, each a record [tag, text] where tag is
\* the prefix the parser recognises ("TITLE:", "MESSAGE:" or "") and text
\* the rest of the line, stripped
generate_commit_message_unchecked(reply, feature_name) ==
  LET fallbackTitle == <<"feat: ", feature_name>>
      fallbackMessage == <<"Changes related to ", feature_name>>
      lines == reply.lines
      titles == {k \in 1..Len(lines) : lines[k].tag = "TITLE:"}
      messages == {k \in 1..Len(lines) : lines[k].tag = "MESSAGE:"}
      Last(S) == CHOOSE k \in S : \A m \in S : m <= k
      title == IF titles = {} THEN "" ELSE lines[Last(titles)].text
      message == IF messages = {} THEN "" ELSE lines[Last(messages)].text
  IN IF reply.raised THEN <<fallbackTitle, fallbackMessage>>
     ELSE << <<title>>, <<message>> >>

generate_commit_message(reply, feature_name) ==
  LET fallbackTitle == <<"feat: ", feature_name>>
      fallbackMessage == <<"Changes related to ", feature_name>>
      lines == reply.lines
      titles == {k \in 1..Len(lines) : lines[k].tag = "TITLE:"}
      messages == {k \in 1..Len(lines) : lines[k].tag = "MESSAGE:"}
      Last(S) == CHOOSE k \in S : \A m \in S : m <= k
      title == IF titles = {} THEN "" ELSE lines[Last(titles)].text
      message == IF messages = {} THEN "" ELSE lines[Last(messages)].text
  IN IF reply.raised THEN <<fallbackTitle, fallbackMessage>>
     ELSE << IF title = "" THEN fallbackTitle ELSE <<title>>,
             IF message = "" THEN fallbackMessage ELSE <<message>> >>

\* one iteration of the first loop: groups is the insertion-ordered dict,
\* a sequence of [key, files]
AddToGroupsOverwrite(groups, change) ==
  LET group_key == determine_group_key(change.file_path)
      found == {k \in 1..Len(groups) : groups[k].key = group_key}
  IN IF found = {}
     THEN Append(groups, [key |-> group_key, files |-> <<change>>])
     ELSE [k \in 1..Len(groups) |->
             IF k \in found THEN [groups[k] EXCEPT !.files = <<change>>]
             ELSE groups[k]]

AddToGroups(groups, change) ==
  LET group_key == determine_group_key(change.file_path)
      found == {k \in 1..Len(groups) : groups[k].key = group_key}
  IN IF found = {}
     THEN Append(groups, [key |-> group_key, files |-> <<change>>])
     ELSE [k \in 1..Len(groups) |->
             IF k \in found THEN [groups[k] EXCEPT !.files = Append(@, change)]
             ELSE groups[k]]

RECURSIVE GroupDict(_, _)
GroupDict(groups, changes) ==
  IF changes = <<>> THEN groups
  ELSE GroupDict(AddToGroups(groups, Head(changes)), Tail(changes))

\* replies: the narrator's reply for each group key
group_changes_heuristic(changes, replies) ==
  LET groups == GroupDict(<<>>, changes)
  IN [k \in 1..Len(groups) |->
        LET tm == generate_commit_message(replies[groups[k].key],
                                          groups[k].key)
        IN CommitGroup(groups[k].key, groups[k].files, tm[1], tm[2])]

\* the arguments of the narrator's calls made by group_changes_heuristic
\* when it is given semantic_summary
narrator_calls(changes, semantic_summary) ==
  LET groups == GroupDict(<<>>, changes)
  IN [k \in 1..Len(groups) |->
        [file_changes |-> groups[k].files, feature_name |-> groups[k].key,
         semantic_summary |-> semantic_summary]]

\* the four queries of analyze_semantic_relationships
Queries ==
  << "same feature", "logical separation", "functionality and purpose",
     "user-facing feature" >>

\* the loop over the queries: results[k] is what search_memories did for
\* the k-th query, [raised, summary] with summary "" when there is none
RECURSIVE SemanticSummary(_, _)
SemanticSummary(results, k) ==
  IF k > Len(results) THEN <<>>
  ELSE (IF ~results[k].raised /\ results[k].summary # ""
        THEN << [query |-> Queries[k], summary |-> results[k].summary] >>
        ELSE <<>>)
       \o SemanticSummary(results, k + 1)

\* the groups, the summary and the narrator's calls of one analysis
analyze_semantic_relationships_by_summary(changes, results, replies) ==
  LET semantic_summary == SemanticSummary(results, 1)
      one == IF changes = <<>> THEN <<>>
             ELSE << CommitGroup("semantic", changes, <<"feat: ", "semantic">>,
                                 <<"Changes related to ", "semantic">>) >>
  IN [commit_groups |-> IF semantic_summary = <<>>
                        THEN group_changes_heuristic(changes, replies)
                        ELSE one,
      semantic_summary |-> semantic_summary,
      calls |-> narrator_calls(changes, <<>>)]

analyze_semantic_relationships(changes, results, replies) ==
  [commit_groups |-> group_changes_heuristic(changes, replies),
   semantic_summary |-> SemanticSummary(results, 1),
   calls |-> narrator_calls(changes, <<>>)]

\* "Remove duplicates while preserving order"
RECURSIVE Unique(_, _)
Unique(files, seen) ==
  IF files = <<>> THEN <<>>
  ELSE IF Head(files) \in seen THEN Unique(Tail(files), seen)
  ELSE <<Head(files)>> \o Unique(Tail(files), seen \cup {Head(files)})

\* outs: the results [rc, stdout] of the three enumeration commands, stdout
\* being the sequence of non-empty stripped lines
get_git_diff_files(outs) ==
  IF \E k \in 1..3 : outs[k].rc # 0 THEN <<>>
  ELSE Unique(outs[1].stdout \o outs[2].stdout \o outs[3].stdout, {})

\* ------------------------------------------------------------------------
\* The checkout: the part of git the program observes and changes.
\* A checkout c has c.head, c.index, c.wt : path -> blob (the tree of the
\* HEAD commit, the staging area, the files on disk).
\* ------------------------------------------------------------------------
Blobs == {"absent", "v1", "v2", "v3"}

\* the text of a blob: its lines, each a sequence of characters
BlobLines(b) ==
  CASE b = "v1" -> << <<"a">>, <<"b">> >>
    [] b = "v2" -> << <<"a">>, <<"c">>, <<"d">> >>
    [] b = "v3" -> << <<"a">>, <<"+", "+", "i">>, <<"b">> >>
    [] OTHER -> <<>>

\* the paths of a checkout, in the byte order git lists them
RepoPaths == << PathPool[3], PathPool[4], PathPool[5] >>

RepoPathSet == Range(RepoPaths)

\* (head, index, worktree) of one path
Tracked(h, x, w) == [head |-> h, index |-> x, wt |-> w]

Clean == Tracked("v1", "v1", "v1")

\* the ways a path can be changed when the program starts
FileStates ==
  { Tracked("v1", "v1", "v2"),              \* modified, not staged
    Tracked("v1", "v2", "v2"),              \* modified and staged
    Tracked("v1", "v2", "v1"),              \* staged, then reverted on disk
    Tracked("absent", "absent", "v2"),      \* untracked
    Tracked("absent", "v2", "v2"),          \* new and staged
    Tracked("absent", "v2", "absent"),      \* new, staged, removed from disk
    Tracked("v1", "v1", "absent"),          \* deleted on disk
    Tracked("v1", "absent", "absent") }     \* deletion staged

Checkout(st) ==
  [head |-> [p \in RepoPathSet |-> st[p].head],
   index |-> [p \in RepoPathSet |-> st[p].index],
   wt |-> [p \in RepoPathSet |-> st[p].wt]]

\* the checkouts with at most MaxChanged changed paths, each changed path in
\* one of the given states
Checkouts(states) ==
  { Checkout(st) :
      st \in { f \in [RepoPathSet -> states \cup {Clean}] :
                 Cardinality({p \in RepoPathSet : f[p] # Clean})
                   <= MaxChanged } }

\* a completed process: return code and standard output
Proc(rc, stdout) == [rc |-> rc, stdout |-> stdout]

Failed(stdout) == Proc(1, stdout)

\* git diff --name-only
GitDiffNames(c) ==
  LET T(p) == c.index[p] # "absent" /\ c.wt[p] # c.index[p]
  IN Proc(0, SelectSeq(RepoPaths, T))

\* git diff --cached --name-only
GitDiffCachedNames(c) ==
  LET T(p) == c.index[p] # c.head[p]
  IN Proc(0, SelectSeq(RepoPaths, T))

\* git ls-files --others --exclude-standard
GitLsOthers(c) ==
  LET T(p) == c.index[p] = "absent" /\ c.wt[p] # "absent"
  IN Proc(0, SelectSeq(RepoPaths, T))

\* git ls-files <path>
GitLsFiles(c, p) ==
  Proc(0, IF c.index[p] # "absent" THEN <<p>> ELSE <<>>)

\* git show HEAD:<path>
GitShowHead(c, p) ==
  IF c.head[p] # "absent" THEN Proc(0, c.head[p]) ELSE Proc(128, "absent")

\* git show :<path>
GitShowIndex(c, p) ==
  IF c.index[p] # "absent" THEN Proc(0, c.index[p]) ELSE Proc(128, "absent")

\* open(path).read(): rc 1 stands for the raised exception
ReadFile(c, p) ==
  IF c.wt[p] # "absent" THEN Proc(0, c.wt[p]) ELSE Failed("absent")

RECURSIVE CommonPrefix(_, _)
CommonPrefix(a, b) ==
  IF a = <<>> \/ b = <<>> \/ Head(a) # Head(b) THEN 0
  ELSE 1 + CommonPrefix(Tail(a), Tail(b))

Reverse(s) == [k \in 1..Len(s) |-> s[Len(s) + 1 - k]]

Prefixed(ch, lines) == [k \in 1..Len(lines) |-> <<ch>> \o lines[k]]

\* the unified diff from old to new, as str.split('\n') sees it: the header
\* lines, the hunk and the empty string after the last newline
UnifiedDiff(old, new) ==
  IF old = new THEN << <<>> >>
  ELSE
    LET a == BlobLines(old)
        b == BlobLines(new)
        pre == CommonPrefix(a, b)
        a1 == SubSeq(a, pre + 1, Len(a))
        b1 == SubSeq(b, pre + 1, Len(b))
        suf == CommonPrefix(Reverse(a1), Reverse(b1))
    IN << <<"d", "i", "f", "f">>, <<"i", "n", "d", "e", "x">>,
          <<"-", "-", "-", " ", "a">>,
          IF new = "absent" THEN <<"+", "+", "+", " ", "/">>
                            ELSE <<"+", "+", "+", " ", "b">>,
          <<"@", "@">> >>
       \o Prefixed(" ", SubSeq(a, 1, pre))
       \o Prefixed("-", SubSeq(a1, 1, Len(a1) - suf))
       \o Prefixed("+", SubSeq(b1, 1, Len(b1) - suf))
       \o Prefixed(" ", SubSeq(a1, Len(a1) - suf + 1, Len(a1)))
       \o << <<>> >>

\* git diff --unified=3 <path>: index against the file on disk; nothing for
\* a path that is not in the index
GitDiffFile(c, p) ==
  IF c.index[p] = "absent" THEN Proc(0, << <<>> >>)
  ELSE Proc(0, UnifiedDiff(c.index[p], c.wt[p]))

\* ------------------------------------------------------------------------
\* Change extractor
\* ------------------------------------------------------------------------
\* what each subcommand of one extract_changes iteration returns
FileProcs(c, p) ==
  [ls |-> GitLsFiles(c, p), show1 |-> GitShowHead(c, p),
   diff |-> GitDiffFile(c, p), show2 |-> GitShowHead(c, p),
   showidx |-> GitShowIndex(c, p), read |-> ReadFile(c, p)]

\* get_file_content: the blob, or None when git show exited non-zero
get_file_content(show) ==
  IF show.rc = 0 THEN Some(show.stdout) ELSE None

\* get_file_diff
get_file_diff(diff) ==
  IF diff.rc = 0 THEN diff.stdout ELSE << <<>> >>

determine_change_type(ls, show) ==
  LET file_exists_in_git == ls.rc = 0 /\ ls.stdout # <<>>
      head_content == get_file_content(show)
  IN IF ~file_exists_in_git /\ head_content = None THEN "added"
     ELSE IF file_exists_in_git /\ head_content = None THEN "deleted"
     ELSE "modified"

StartsWith(line, prefix) ==
  /\ Len(line) >= Len(prefix)
  /\ SubSeq(line, 1, Len(prefix)) = prefix

CountLines(lines, sign) ==
  Cardinality({k \in 1..Len(lines) :
                 /\ StartsWith(lines[k], <<sign>>)
                 /\ ~StartsWith(lines[k], <<sign, sign, sign>>)})

\* one iteration of the loop of extract_changes; r = the subcommands' results
ExtractOneAlwaysAfter(file_path, r) ==
  LET change_type == determine_change_type(r.ls, r.show1)
      diff_content == get_file_diff(r.diff)
      before_content ==
        IF change_type # "added" THEN get_file_content(r.show2) ELSE None
      after_content ==
        IF r.showidx.rc = 0 THEN Some(r.showidx.stdout)
        ELSE IF r.read.rc = 0 THEN Some(r.read.stdout)
        ELSE None
  IN FileChange(file_path, change_type, before_content, after_content,
                diff_content, CountLines(diff_content, "+"),
                CountLines(diff_content, "-"))

ExtractOne(file_path, r) ==
  LET change_type == determine_change_type(r.ls, r.show1)
      diff_content == get_file_diff(r.diff)
      before_content ==
        IF change_type # "added" THEN get_file_content(r.show2) ELSE None
      after_content ==
        IF change_type # "deleted"
        THEN IF r.showidx.rc = 0 THEN Some(r.showidx.stdout)
             ELSE IF r.read.rc = 0 THEN Some(r.read.stdout)
             ELSE None
        ELSE None
  IN FileChange(file_path, change_type, before_content, after_content,
                diff_content, CountLines(diff_content, "+"),
                CountLines(diff_content, "-"))

\* extract_changes: names are the results of the three enumeration commands,
\* procs[p] the results of the per-path subcommands
extract_changes(names, procs) ==
  LET changed_files == get_git_diff_files(names)
  IN [k \in 1..Len(changed_files) |->
        ExtractOne(changed_files[k], procs[changed_files[k]])]

\* the results of the enumeration commands in checkout c
NameProcs(c) == << GitDiffNames(c), GitDiffCachedNames(c), GitLsOthers(c) >>

\* ------------------------------------------------------------------------
\* Idle values of the variables a specification does not use
\* ------------------------------------------------------------------------
GroupIdle ==
  /\ g_pc = "idle" /\ g_names = <<>> /\ g_changes = <<>> /\ g_groups = <<>>
  /\ g_reply = <<>> /\ g_search = <<>> /\ g_summary = <<>> /\ g_calls = <<>>

ExtractIdle ==
  /\ x_pc = "idle" /\ x_checkout = Checkout([p \in RepoPathSet |-> Clean])
  /\ x_faults = 0 /\ x_names = <<>> /\ x_files = <<>> /\ x_procs = <<>>
  /\ x_changes = <<>>

GateIdle ==
  /\ t_pc = "idle" /\ t_tree = <<>> /\ t_threshold = 0 /\ t_report = <<>>

ExecIdle ==
  /\ pc = "idle" /\ checkout = Checkout([p \in RepoPathSet |-> Clean])
  /\ refs = <<>> /\ on = "" /\ at = 0 /\ history = <<>> /\ remote = <<>>
  /\ commit_groups = <<>> /\ auto_push = FALSE /\ current_branch = ""
  /\ successful_commits = 0 /\ i = 0 /\ j = 0 /\ result = <<>>
  /\ out = <<>> /\ cmds = <<>>

CallIdle ==
  /\ c_pc = "idle" /\ c_args = <<>> /\ c_env = <<>> /\ c_cmds = <<>>
  /\ c_result = <<>>

\* ------------------------------------------------------------------------
\* SpecGroup: enumeration of the changed paths and grouping
\* ------------------------------------------------------------------------
\* what the three enumeration commands print when each path of PathPool has
\* the given status
StatusNames(status) ==
  LET U(p) == status[p] \in {"unstaged", "both"}
      S(p) == status[p] \in {"staged", "both"}
      N(p) == status[p] = "untracked"
  IN << Proc(0, SelectSeq(PathPool, U)), Proc(0, SelectSeq(PathPool, S)),
        Proc(0, SelectSeq(PathPool, N)) >>

PoolStatuses ==
  { st \in [Range(PathPool) ->
              {"none", "unstaged", "staged", "both", "untracked"}] :
      Cardinality({p \in Range(PathPool) : st[p] # "none"}) <= MaxChanged }

\* the narrator's replies
Replies ==
  { [raised |-> TRUE, lines |-> <<>>],
    [raised |-> FALSE,
     lines |-> << [tag |-> "TITLE:", text |-> "fix: x"],
                  [tag |-> "MESSAGE:", text |-> "body"] >>],
    [raised |-> FALSE, lines |-> << [tag |-> "", text |-> "hello"] >>],
    [raised |-> FALSE,
     lines |-> << [tag |-> "TITLE:", text |-> ""],
                  [tag |-> "MESSAGE:", text |-> "body"] >>],
    [raised |-> FALSE,
     lines |-> << [tag |-> "", text |-> "Sure!"],
                  [tag |-> "TITLE:", text |-> "fix: x"] >>] }

\* what the memory search can do for the four queries
SearchResults ==
  LET Raised == [raised |-> TRUE, summary |-> ""]
      Empty == [raised |-> FALSE, summary |-> ""]
      Found == [raised |-> FALSE, summary |-> "two features"]
  IN { <<Raised, Raised, Raised, Raised>>, <<Empty, Empty, Empty, Empty>>,
       <<Found, Found, Found, Found>>, <<Raised, Empty, Found, Found>> }

GroupKeys ==
  {"frontend", "backend", "documentation", "testing", "configuration",
   "utilities", "code", "other"}

\* a change as the dataclass defaults make it
DefaultChange(p) == FileChange(p, "modified", None, None, << <<>> >>, 0, 0)

InitGroup ==
  /\ g_pc = "list"
  /\ \E st \in PoolStatuses, bad \in 0..3 :
       g_names = [k \in 1..3 |-> IF k = bad THEN Failed(<<>>)
                                 ELSE StatusNames(st)[k]]
  /\ g_changes = <<>> /\ g_groups = <<>> /\ g_reply = <<>>
  /\ g_search = <<>> /\ g_summary = <<>> /\ g_calls = <<>>
  /\ ExtractIdle /\ GateIdle /\ ExecIdle /\ CallIdle

ListChanges ==
  /\ g_pc = "list"
  /\ g_changes' = LET files == get_git_diff_files(g_names)
                  IN [k \in 1..Len(files) |-> DefaultChange(files[k])]
  /\ g_pc' = "group"
  /\ UNCHANGED <<g_names, g_groups, g_reply, g_search, g_summary, g_calls,
                 xvars, tvars, evars, cvars>>

GroupChanges ==
  /\ g_pc = "group"
  /\ \E reply \in Replies, results \in SearchResults :
       LET r == analyze_semantic_relationships(g_changes, results,
                                               [k \in GroupKeys |-> reply])
       IN /\ g_groups' = r.commit_groups
          /\ g_summary' = r.semantic_summary
          /\ g_calls' = r.calls
          /\ g_reply' = reply
          /\ g_search' = results
  /\ g_pc' = "done"
  /\ UNCHANGED <<g_names, g_changes, xvars, tvars, evars, cvars>>

NextGroup == ListChanges \/ GroupChanges

SpecGroup == InitGroup /\ [][NextGroup]_vars

\* ------------------------------------------------------------------------
\* SpecExtract: extract_changes on a checkout whose subcommands may fail
\* ------------------------------------------------------------------------
\* the path state in which a line of the new text starts with "++"
PlusPlus == Tracked("v1", "v1", "v3")

InitExtract ==
  /\ x_pc = "enumerate"
  /\ x_checkout \in Checkouts(FileStates \cup {PlusPlus})
  /\ x_faults = 0 /\ x_names = <<>> /\ x_files = <<>> /\ x_procs = <<>>
  /\ x_changes = <<>>
  /\ GroupIdle /\ GateIdle /\ ExecIdle /\ CallIdle

\* get_git_diff_files: at most one of the three commands fails
EnumerateChanged ==
  /\ x_pc = "enumerate"
  /\ \E bad \in 0..3 :
       /\ x_names' = [k \in 1..3 |-> IF k = bad THEN Failed(<<>>)
                                     ELSE NameProcs(x_checkout)[k]]
       /\ x_faults' = IF bad = 0 THEN 0 ELSE 1
  /\ x_files' = get_git_diff_files(x_names')
  /\ x_pc' = "files"
  /\ UNCHANGED <<x_checkout, x_procs, x_changes, gvars, tvars, evars,
                 cvars>>

FaultKinds == {"ls", "show1", "diff", "show2", "showidx", "read"}

\* the subcommands' results when those of bad fail
Faulty(r, bad) ==
  [k \in FaultKinds |->
     IF k \notin bad THEN r[k]
     ELSE IF k = "ls" THEN Failed(<<>>)
     ELSE IF k = "diff" THEN Failed(<< <<>> >>)
     ELSE Failed("absent")]

\* one iteration of the loop of extract_changes
ExtractFile ==
  /\ x_pc = "files"
  /\ Len(x_changes) < Len(x_files)
  /\ LET p == x_files[Len(x_changes) + 1]
     IN \E bad \in SUBSET FaultKinds :
          /\ x_faults + Cardinality(bad) <= MaxFaults
          /\ x_faults' = x_faults + Cardinality(bad)
          /\ LET r == Faulty(FileProcs(x_checkout, p), bad)
             IN /\ x_procs' = Append(x_procs, r)
                /\ x_changes' = Append(x_changes, ExtractOne(p, r))
  /\ UNCHANGED <<x_pc, x_checkout, x_names, x_files, gvars, tvars, evars,
                 cvars>>

ExtractReturn ==
  /\ x_pc = "files"
  /\ Len(x_changes) = Len(x_files)
  /\ x_pc' = "done"
  /\ UNCHANGED <<x_checkout, x_faults, x_names, x_files, x_procs, x_changes,
                 gvars, tvars, evars,
                 cvars>>

NextExtract == EnumerateChanged \/ ExtractFile \/ ExtractReturn

SpecExtract == InitExtract /\ [][NextExtract]_vars

\* ------------------------------------------------------------------------
\* Threshold gate
\* ------------------------------------------------------------------------
\* default of the threshold parameter
DefaultThreshold == 1000

\* A working tree as the gate's subcommands see it: a sequence of entries
\* [file, kind, added, removed, binary, old, new, lines, eol, readable];
\* kind is "unstaged", "staged" or "untracked"; added/removed are the line
\* counts git computes for a tracked text file; old/new the sizes of a
\* binary file; lines/eol/readable describe an untracked file's text.
TreeEntry(file, kind, added, removed, binary, old, new, lines, eol, readable) ==
  [file |-> file, kind |-> kind, added |-> added, removed |-> removed,
   binary |-> binary, old |-> old, new |-> new, lines |-> lines,
   eol |-> eol, readable |-> readable]

TextEntry(file, kind, added, removed) ==
  TreeEntry(file, kind, added, removed, FALSE, 0, 0, 0, FALSE, TRUE)

BinaryEntry(file, kind, old, new) ==
  TreeEntry(file, kind, 0, 0, TRUE, old, new, 0, FALSE, TRUE)

NewEntry(file, lines, eol, readable) ==
  TreeEntry(file, "untracked", lines, 0, FALSE, 0, 0, lines, eol, readable)

\* tokens of a line of output
Word(w) == [k |-> "word", w |-> w, n |-> 0]
Num(n) == [k |-> "num", w |-> "", n |-> n]
Pipe == [k |-> "pipe", w |-> "|", n |-> 0]

\* 'changed' in w, for the words of the modelled output
HasChanged(w) == w \in {"changed.bin", "file changed,", "files changed,"}

\* git diff [--cached] --stat, split at newlines: one line per file of the
\* kind, then the summary line, then the empty string
GitDiffStat(tree, kind) ==
  LET T(e) == e.kind = kind
      es == SelectSeq(tree, T)
      FileLine(e) ==
        IF e.binary
        THEN << Word(e.file), Pipe, Word("Bin"), Num(e.old), Word("->"),
                Num(e.new), Word("bytes") >>
        ELSE << Word(e.file), Pipe, Num(e.added + e.removed),
                Word("+-") >>
      Summary ==
        << Num(Len(es)),
           Word(IF Len(es) = 1 THEN "file changed," ELSE "files changed,"),
           Num(SumSeq([k \in 1..Len(es) |-> es[k].added])),
           Word("insertions(+),"),
           Num(SumSeq([k \in 1..Len(es) |-> es[k].removed])),
           Word("deletions(-)") >>
  IN IF es = <<>> THEN << <<>> >>
     ELSE [k \in 1..Len(es) |-> FileLine(es[k])] \o <<Summary, <<>> >>

\* git ls-files --others --exclude-standard, stripped non-empty lines
GitUntracked(tree) ==
  LET T(e) == e.kind = "untracked"
  IN SelectSeq(tree, T)

\* len(content.split('\n')) of an untracked file's text
SplitCount(e) ==
  IF e.lines = 0 THEN 1 ELSE e.lines + (IF e.eol THEN 1 ELSE 0)

ChangedFile(file, lines_added, lines_removed, type) ==
  [file |-> file, lines_added |-> lines_added,
   lines_removed |-> lines_removed, type |-> type]

\* the body of one of the two parsing loops for one line of output
ParseStatLine(line, type) ==
  LET pipes == {k \in 1..Len(line) : line[k].k = "pipe"}
      changed == \E k \in 1..Len(line) :
                   line[k].k = "word" /\ HasChanged(line[k].w)
      first == CHOOSE k \in pipes : \A m \in pipes : k <= m
      later == {k \in pipes : k > first}
      stop == IF later = {} THEN Len(line) + 1
              ELSE CHOOSE k \in later : \A m \in later : k <= m
      stats == SubSeq(line, first + 1, stop - 1)
      IsNum(t) == t.k = "num"
      numbers == SelectSeq(stats, IsNum)
  IN IF pipes # {} /\ changed /\ Len(numbers) >= 2
     THEN << ChangedFile(line[1].w, numbers[1].n, numbers[2].n, type) >>
     ELSE <<>>

ParseStat(lines, type) ==
  SeqConcat([k \in 1..Len(lines) |-> ParseStatLine(lines[k], type)])

\* the loop over the untracked files
ParseUntracked(entries) ==
  [k \in 1..Len(entries) |->
     IF entries[k].readable
     THEN ChangedFile(entries[k].file, SplitCount(entries[k]), 0, "new")
     ELSE ChangedFile(entries[k].file, 1, 0, "new")]

ExceedsAtLeast(total_changes, threshold) == total_changes >= threshold

Exceeds(total_changes, threshold) == total_changes > threshold

\* ok = FALSE: one of the three subcommands exited non-zero
check_changes_threshold(tree, threshold, ok) ==
  IF ~ok THEN [success |-> FALSE]
  ELSE
    LET changed_files ==
          ParseStat(GitDiffStat(tree, "unstaged"), "modified")
          \o ParseStat(GitDiffStat(tree, "staged"), "staged")
          \o ParseUntracked(GitUntracked(tree))
        total_lines_added ==
          SumSeq([k \in 1..Len(changed_files) |->
                    changed_files[k].lines_added])
        total_lines_removed ==
          SumSeq([k \in 1..Len(changed_files) |->
                    changed_files[k].lines_removed])
        total_changes == total_lines_added + total_lines_removed
        exceeds_threshold == Exceeds(total_changes, threshold)
        IsNew(f) == f.type = "new"
        IsOld(f) == f.type \in {"modified", "staged"}
    IN [success |-> TRUE,
        total_lines_added |-> total_lines_added,
        total_lines_removed |-> total_lines_removed,
        total_changes |-> total_changes,
        threshold |-> threshold,
        exceeds_threshold |-> exceeds_threshold,
        changed_files |-> changed_files,
        file_count |-> Len(changed_files),
        new_files_count |-> Len(SelectSeq(changed_files, IsNew)),
        modified_files_count |-> Len(SelectSeq(changed_files, IsOld)),
        recommendation |-> IF exceeds_threshold
                           THEN "intelligent_commit_split"
                           ELSE "regular_commit"]

\* ------------------------------------------------------------------------
\* SpecGate: one call of the threshold gate
\* ------------------------------------------------------------------------
GateFiles == <<"a.py", "b.py", "changed.bin", "d.py", "e.py", "f.py">>

\* the states the k-th file can be in; <<>> = unchanged
GateStates(k) ==
  LET f == GateFiles[k]
  IN IF f = "changed.bin"
     THEN { <<>>, <<BinaryEntry(f, "unstaged", 0, 1234)>>,
            <<TextEntry(f, "unstaged", 5, 2)>> }
     ELSE { <<>>, <<TextEntry(f, "unstaged", 300, 0)>>,
            <<TextEntry(f, "unstaged", 5, 2)>>,
            <<TextEntry(f, "staged", 300, 0)>>,
            <<NewEntry(f, 2, TRUE, TRUE)>>,
            <<NewEntry(f, 1200, FALSE, TRUE)>>,
            <<NewEntry(f, 2, TRUE, FALSE)>> }

RECURSIVE TreesOf(_)
TreesOf(n) ==
  IF n = 0 THEN { <<>> }
  ELSE { t \o e : t \in TreesOf(n - 1), e \in GateStates(n) }

GateTrees == TreesOf(MaxGateFiles)

Thresholds == {0, 3, DefaultThreshold}

InitGate ==
  /\ t_pc = "call"
  /\ t_tree \in GateTrees
  /\ t_threshold \in Thresholds
  /\ t_report = <<>>
  /\ GroupIdle /\ ExtractIdle /\ ExecIdle /\ CallIdle

CheckChangesThreshold ==
  /\ t_pc = "call"
  /\ \E ok \in BOOLEAN :
       t_report' = check_changes_threshold(t_tree, t_threshold, ok)
  /\ t_pc' = "done"
  /\ UNCHANGED <<t_tree, t_threshold, gvars, xvars, evars, cvars>>

NextGate == CheckChangesThreshold

SpecGate == InitGate /\ [][NextGate]_vars

\* ------------------------------------------------------------------------
\* The subcommands that change the checkout.  Each returns [rc, c]: the
\* return code and the checkout afterwards.
\* ------------------------------------------------------------------------
\* git reset
GitResetKeepsIndex(c) == [rc |-> 0, c |-> c]

GitReset(c) == [rc |-> 0, c |-> [c EXCEPT !.index = c.head]]

\* git add <path>: stages the file on disk, or the removal of a tracked
\* file that is gone; fails for a path neither on disk nor in the index
GitAdd(c, p) ==
  IF c.wt[p] = "absent" /\ c.index[p] = "absent" THEN [rc |-> 128, c |-> c]
  ELSE [rc |-> 0, c |-> [c EXCEPT !.index[p] = c.wt[p]]]

\* git rm <path>: fails for a path that is not in the index, that has staged
\* changes or that differs on disk from the index
GitRm(c, p) ==
  IF /\ c.index[p] # "absent"
     /\ c.index[p] = c.head[p]
     /\ c.wt[p] \in {"absent", c.index[p]}
  THEN [rc |-> 0,
        c |-> [c EXCEPT !.index[p] = "absent", !.wt[p] = "absent"]]
  ELSE [rc |-> 1, c |-> c]

\* git commit -m <message>: fails when nothing is staged
GitCommit(c) ==
  IF c.index = c.head THEN [rc |-> 1, c |-> c]
  ELSE [rc |-> 0, c |-> [c EXCEPT !.head = c.index]]

\* ------------------------------------------------------------------------
\* Transactional executor: execute_commit_splitting
\* ------------------------------------------------------------------------
\* f"backup-before-split-{int(os.getpid())}", for the process of the run
backup_branch == "backup-before-split-4242"

\* a printed line: the message, the number and the name it shows
Line(msg, num, name) == [msg |-> msg, num |-> num, name |-> name]

Cmd(cmd, rc) == [cmd |-> cmd, rc |-> rc]

\* the position after the body of the loop for group k of n has been run to
\* its end or left by the continue of the empty-group check
AfterGroup(k, n) == IF k < n THEN "reset" ELSE "summary"

\* the position after the continue of the except-branch
AfterErrorBreak(k, n) == "summary"

AfterError(k, n) == IF k < n THEN "reset" ELSE "summary"

\* the except-branch of the loop body
GroupFailed ==
  /\ out' = Append(out, Line("Error creating commit for group", i,
                             commit_groups[i].feature_name))
  /\ pc' = AfterError(i, Len(commit_groups))
  /\ i' = i + 1
  /\ j' = 0
  /\ UNCHANGED successful_commits

\* the position after `if not staged_files`
AfterCheckNoSkip(staged_files) == "commit"

AfterCheck(staged_files) ==
  IF staged_files = <<>> THEN "skip" ELSE "commit"

\* git rev-parse --abbrev-ref HEAD
GetCurrentBranch ==
  /\ pc = "get_branch"
  /\ \E ok \in BOOLEAN :
       IF ok
       THEN /\ cmds' = Append(cmds, Cmd("rev-parse", 0))
            /\ current_branch' = on
            /\ out' = Append(out, Line("Current branch", 0, on))
            /\ pc' = "create_backup"
            /\ UNCHANGED result
       ELSE /\ cmds' = Append(cmds, Cmd("rev-parse", 128))
            /\ out' = Append(out, Line("Error getting current branch", 0, ""))
            /\ result' = FALSE
            /\ pc' = "done"
            /\ UNCHANGED current_branch
  /\ UNCHANGED <<checkout, refs, on, at, history, remote, commit_groups,
                 auto_push, successful_commits, i, j, gvars, xvars,
                 tvars, cvars>>

\* where the run goes when the backup step raised
BackupFailedIgnored ==
  /\ out' = Append(out, Line("Error creating backup branch", 0,
                             backup_branch))
  /\ pc' = AfterGroup(0, Len(commit_groups))
  /\ i' = 1
  /\ UNCHANGED result

BackupFailed ==
  /\ out' = Append(out, Line("Error creating backup branch", 0,
                             backup_branch))
  /\ result' = FALSE
  /\ pc' = "done"
  /\ UNCHANGED i

\* git checkout -b <backup_branch>
CreateBackup ==
  /\ pc = "create_backup"
  /\ \E ok \in BOOLEAN :
       IF ok /\ backup_branch \notin DOMAIN refs
       THEN /\ cmds' = Append(cmds, Cmd("checkout -b", 0))
            /\ refs' = [b \in DOMAIN refs \cup {backup_branch} |->
                          IF b = backup_branch THEN at ELSE refs[b]]
            /\ on' = backup_branch
            /\ pc' = "checkout_back"
            /\ UNCHANGED <<result, out, i>>
       ELSE /\ cmds' = Append(cmds, Cmd("checkout -b", 128))
            /\ BackupFailed
            /\ UNCHANGED <<refs, on>>
  /\ UNCHANGED <<checkout, at, history, remote, commit_groups, auto_push,
                 current_branch, successful_commits, j, gvars, xvars,
                 tvars, cvars>>

\* git checkout <current_branch>; "git checkout HEAD" switches nothing
CheckoutBack ==
  /\ pc = "checkout_back"
  /\ \E ok \in BOOLEAN :
       IF ok
       THEN /\ cmds' = Append(cmds, Cmd("checkout", 0))
            /\ on' = IF current_branch = "HEAD" THEN on ELSE current_branch
            /\ out' = Append(out, Line("Created backup branch", 0,
                                       backup_branch))
            /\ pc' = AfterGroup(0, Len(commit_groups))
            /\ i' = 1
            /\ UNCHANGED result
       ELSE /\ cmds' = Append(cmds, Cmd("checkout", 1))
            /\ BackupFailed
            /\ UNCHANGED on
  /\ UNCHANGED <<checkout, refs, at, history, remote, commit_groups,
                 auto_push, current_branch, successful_commits, j, gvars,
                 xvars, tvars, cvars>>

\* the head of the loop body and git reset
ResetStaging ==
  /\ pc = "reset"
  /\ \E ok \in BOOLEAN :
       LET r == GitReset(checkout)
           header == Line("Processing Group", i,
                          commit_groups[i].feature_name)
       IN IF ok
          THEN /\ cmds' = Append(cmds, Cmd("reset", r.rc))
               /\ checkout' = r.c
               /\ out' = Append(out, header)
               /\ j' = 1
               /\ pc' = IF commit_groups[i].files = <<>> THEN "check"
                        ELSE "stage"
               /\ UNCHANGED <<i, successful_commits>>
          ELSE /\ cmds' = Append(cmds, Cmd("reset", 128))
               /\ LET printed == Append(out, header)
                  IN /\ out' = Append(printed,
                                      Line("Error creating commit for group",
                                           i, commit_groups[i].feature_name))
                     /\ pc' = AfterError(i, Len(commit_groups))
                     /\ i' = i + 1
                     /\ j' = 0
               /\ UNCHANGED <<checkout, successful_commits>>
  /\ UNCHANGED <<refs, on, at, history, remote, commit_groups, auto_push,
                 current_branch, result, gvars, xvars,
                 tvars, cvars>>

\* one iteration of the staging loop: git rm or git add
StageFile ==
  /\ pc = "stage"
  /\ LET file_change == commit_groups[i].files[j]
         file_path == file_change.file_path
         deleted == file_change.change_type = "deleted"
         name == IF deleted THEN "rm" ELSE "add"
         r == IF deleted THEN GitRm(checkout, file_path)
              ELSE GitAdd(checkout, file_path)
     IN \E ok \in BOOLEAN :
          IF ok /\ r.rc = 0
          THEN /\ cmds' = Append(cmds, Cmd(name, 0))
               /\ checkout' = r.c
               /\ out' = Append(out, Line(IF deleted THEN "Staged deletion"
                                          ELSE "Staged", i, ""))
               /\ j' = j + 1
               /\ pc' = IF j = Len(commit_groups[i].files) THEN "check"
                        ELSE "stage"
               /\ UNCHANGED <<i, successful_commits>>
          ELSE /\ cmds' = Append(cmds, Cmd(name, IF r.rc = 0 THEN 1 ELSE r.rc))
               /\ GroupFailed
               /\ UNCHANGED checkout
  /\ UNCHANGED <<refs, on, at, history, remote, commit_groups, auto_push,
                 current_branch, result, gvars, xvars,
                 tvars, cvars>>

\* git diff --cached --name-only and `if not staged_files`
CheckStaged ==
  /\ pc = "check"
  /\ \E ok \in BOOLEAN :
       LET staged_files == GitDiffCachedNames(checkout).stdout
       IN IF ok
          THEN /\ cmds' = Append(cmds, Cmd("diff --cached", 0))
               /\ IF AfterCheck(staged_files) = "skip"
                  THEN /\ out' = Append(out,
                                        Line("No changes to commit for group",
                                             i, commit_groups[i].feature_name))
                       /\ pc' = AfterGroup(i, Len(commit_groups))
                       /\ i' = i + 1
                       /\ j' = 0
                  ELSE /\ pc' = "commit"
                       /\ UNCHANGED <<out, i, j>>
               /\ UNCHANGED successful_commits
          ELSE /\ cmds' = Append(cmds, Cmd("diff --cached", 128))
               /\ GroupFailed
  /\ UNCHANGED <<checkout, refs, on, at, history, remote, commit_groups,
                 auto_push, current_branch, result, gvars, xvars,
                 tvars, cvars>>

\* git commit -m <title, blank line, message>
CommitGroupFiles ==
  /\ pc = "commit"
  /\ LET r == GitCommit(checkout)
         staged == Range(GitDiffCachedNames(checkout).stdout)
     IN \E ok \in BOOLEAN :
          IF ok /\ r.rc = 0
          THEN /\ cmds' = Append(cmds, Cmd("commit", 0))
               /\ checkout' = r.c
               /\ history' = Append(history,
                                    [parent |-> at, paths |-> staged,
                                     group |-> i, branch |-> on,
                                     message |->
                                       <<commit_groups[i].commit_title,
                                         commit_groups[i].commit_message>>])
               /\ at' = at + 1
               /\ refs' = IF on \in DOMAIN refs
                          THEN [refs EXCEPT ![on] = at + 1] ELSE refs
               /\ out' = Append(out, Line("Created commit", i,
                                          commit_groups[i].feature_name))
               /\ successful_commits' = successful_commits + 1
               /\ pc' = AfterGroup(i, Len(commit_groups))
               /\ i' = i + 1
               /\ j' = 0
          ELSE /\ cmds' = Append(cmds, Cmd("commit", 1))
               /\ GroupFailed
               /\ UNCHANGED <<checkout, history, at, refs>>
  /\ UNCHANGED <<on, remote, commit_groups, auto_push, current_branch,
                 result, gvars, xvars,
                 tvars, cvars>>

\* `if auto_push and successful_commits > 0`
ShouldPushAlways(push, n) == push

ShouldPush(push, n) == push /\ n > 0

\* the except-branch of the push: two prints and `return False`
PushFailedRollback ==
  /\ out' = out \o << Line("Commit splitting completed",
                           successful_commits, ""),
                      Line("Error pushing commits", 0, ""),
                      Line("You can manually push using", 0,
                           current_branch) >>
  /\ result' = FALSE
  /\ pc' = "done"
  /\ at' = refs[backup_branch]
  /\ refs' = [b \in DOMAIN refs |->
                IF b = on THEN refs[backup_branch] ELSE refs[b]]
  /\ history' = <<>>
  /\ UNCHANGED <<checkout, on, remote>>

PushFailed ==
  /\ out' = out \o << Line("Commit splitting completed",
                           successful_commits, ""),
                      Line("Error pushing commits", 0, ""),
                      Line("You can manually push using", 0,
                           current_branch) >>
  /\ result' = FALSE
  /\ pc' = "done"
  /\ UNCHANGED <<checkout, refs, on, at, history, remote>>

\* the summary after the loop and git push origin <current_branch>;
\* "git push origin HEAD" pushes the checked-out branch
PushCommits ==
  /\ pc = "summary"
  /\ ShouldPush(auto_push, successful_commits)
  /\ \E ok \in BOOLEAN :
       LET summary == Append(out, Line("Commit splitting completed",
                                       successful_commits, ""))
       IN IF ok
          THEN /\ cmds' = Append(cmds, Cmd("push", 0))
               /\ remote' = LET b == IF current_branch = "HEAD" THEN on
                                     ELSE current_branch
                            IN [x \in DOMAIN remote \cup {b} |->
                                  IF x = b THEN at ELSE remote[x]]
               /\ out' = Append(summary, Line("Successfully pushed",
                                              successful_commits,
                                              current_branch))
               /\ pc' = "report"
               /\ UNCHANGED <<result, checkout, refs, on, at, history>>
          ELSE /\ cmds' = Append(cmds, Cmd("push", 1))
               /\ PushFailed
  /\ UNCHANGED <<commit_groups, auto_push, current_branch,
                 successful_commits, i, j, gvars, xvars, tvars, cvars>>

\* the last two prints and the return
ReportBackup ==
  /\ \/ pc = "report"
     \/ pc = "summary" /\ ~ShouldPush(auto_push, successful_commits)
  /\ out' = (IF pc = "summary"
             THEN Append(out, Line("Commit splitting completed",
                                   successful_commits, ""))
             ELSE out)
            \o << Line("Backup branch created", 0, backup_branch),
                  Line("To revert all changes: git reset --hard", 0,
                       backup_branch) >>
  /\ result' = (successful_commits > 0)
  /\ pc' = "done"
  /\ UNCHANGED <<checkout, refs, on, at, history, remote, commit_groups,
                 auto_push, current_branch, successful_commits, i, j, cmds,
                 gvars, xvars,
                 tvars, cvars>>

\* the groups the analysis hands to the executor for checkout c
GroupsOf(c, reply) ==
  group_changes_heuristic(
    extract_changes(NameProcs(c), [p \in RepoPathSet |-> FileProcs(c, p)]),
    [k \in GroupKeys |-> reply])

GoodReply ==
  [raised |-> FALSE,
   lines |-> << [tag |-> "TITLE:", text |-> "fix: x"],
                [tag |-> "MESSAGE:", text |-> "body"] >>]

Init ==
  /\ pc = "get_branch"
  /\ checkout \in Checkouts(FileStates)
  /\ commit_groups = GroupsOf(checkout, GoodReply)
  /\ auto_push \in BOOLEAN
  /\ on \in {"main", "HEAD"}
  \* commit 1 is checked out; a backup branch left by an earlier run of
  \* the same process points at its parent, commit 0
  /\ at = 1
  /\ refs \in { [b \in {"main"} |-> 1],
                [b \in {"main", backup_branch} |->
                   IF b = "main" THEN 1 ELSE 0] }
  /\ remote = [b \in {"main"} |-> 1]
  /\ history = <<>>
  /\ current_branch = "" /\ successful_commits = 0 /\ i = 0 /\ j = 0
  /\ result = <<>> /\ out = <<>> /\ cmds = <<>>
  /\ GroupIdle /\ ExtractIdle /\ GateIdle /\ CallIdle

Next ==
  \/ GetCurrentBranch
  \/ CreateBackup
  \/ CheckoutBack
  \/ ResetStaging
  \/ StageFile
  \/ CheckStaged
  \/ CommitGroupFiles
  \/ PushCommits
  \/ ReportBackup

Spec == Init /\ [][Next]_vars

\* ------------------------------------------------------------------------
\* SpecTool: the tool intelligent_commit_split, which runs
\* run_intelligent_splitting and through it the executor
\* ------------------------------------------------------------------------
\* the auto_push the tool hands to run_intelligent_splitting
RunAutoPushThrough(dry_run, push) == push

RunAutoPush(dry_run, push) == IF dry_run THEN FALSE ELSE push

\* `if auto_push:` of step 6, the only call of the executor
ExecuteRequested(push) == push

\* the dictionary the tool returns after run_intelligent_splitting returned
SplitResult(dry_run, push, groups) ==
  IF dry_run
  THEN [success |-> TRUE, dry_run |-> TRUE,
        commit_groups_count |-> Len(groups),
        message |-> [text |-> "Analysis complete! No commits were created",
                     num |-> Len(groups), pushed |-> FALSE]]
  ELSE [success |-> TRUE, dry_run |-> FALSE, auto_push |-> push,
        commit_groups_count |-> Len(groups),
        message |-> [text |-> "Successfully created logical commits",
                     num |-> Len(groups), pushed |-> push]]

\* the dictionary returned for a missing key or an exception
SplitError(error) == [success |-> FALSE, error |-> error]

\* what the environment can be: both keys set or one missing; git answering
\* in a checkout, answering outside of one (every subcommand exits
\* non-zero) or not installed (subprocess.run raises FileNotFoundError)
Environments ==
  { [keys |-> "both", git |-> "ok"],
    [keys |-> "both", git |-> "not_a_repo"],
    [keys |-> "both", git |-> "missing"],
    [keys |-> "no_supermemory", git |-> "ok"],
    [keys |-> "no_cerebras", git |-> "ok"] }

\* the narrator's replies of a tool run
ToolReplies == {GoodReply, [raised |-> TRUE, lines |-> <<>>]}

InitTool ==
  /\ c_pc = "call"
  /\ c_args \in [auto_push : BOOLEAN, dry_run : BOOLEAN]
  /\ c_env \in Environments
  /\ c_cmds = <<>>
  /\ c_result = <<>>
  /\ pc = "idle"
  /\ checkout \in Checkouts(FileStates)
  /\ on \in {"main", "HEAD"}
  /\ at = 1
  /\ refs \in { [b \in {"main"} |-> 1],
                [b \in {"main", backup_branch} |->
                   IF b = "main" THEN 1 ELSE 0] }
  /\ remote = [b \in {"main"} |-> 1]
  /\ history = <<>>
  /\ commit_groups = <<>> /\ auto_push = FALSE
  /\ current_branch = "" /\ successful_commits = 0 /\ i = 0 /\ j = 0
  /\ result = <<>> /\ out = <<>> /\ cmds = <<>>
  /\ GroupIdle /\ ExtractIdle /\ GateIdle

\* _intelligent_commit_split_implementation up to the call of the executor:
\* the key checks, then run_intelligent_splitting's steps 1 to 6
IntelligentCommitSplit ==
  /\ c_pc = "call"
  /\ IF c_env.keys # "both"
     THEN /\ c_result' = SplitError(c_env.keys)
          /\ c_pc' = "returned"
          /\ UNCHANGED <<pc, commit_groups, auto_push>>
     ELSE IF c_env.git = "missing"
     THEN /\ c_result' = SplitError("FileNotFoundError")
          /\ c_pc' = "returned"
          /\ UNCHANGED <<pc, commit_groups, auto_push>>
     ELSE LET push == RunAutoPush(c_args.dry_run, c_args.auto_push)
              names == IF c_env.git = "ok" THEN NameProcs(checkout)
                       ELSE [k \in 1..3 |-> Failed(<<>>)]
              changes ==
                extract_changes(names,
                                [p \in RepoPathSet |-> FileProcs(checkout, p)])
          IN IF changes = <<>>
             THEN /\ c_result' = SplitResult(c_args.dry_run,
                                             c_args.auto_push, <<>>)
                  /\ c_pc' = "returned"
                  /\ UNCHANGED <<pc, commit_groups, auto_push>>
             ELSE \E reply \in ToolReplies :
                    LET groups ==
                          group_changes_heuristic(changes,
                                                  [k \in GroupKeys |-> reply])
                    IN /\ commit_groups' = groups
                       /\ IF ExecuteRequested(push)
                          THEN /\ auto_push' = push
                               /\ pc' = "get_branch"
                               /\ c_pc' = "executing"
                               /\ UNCHANGED c_result
                          ELSE /\ c_result' = SplitResult(c_args.dry_run,
                                                          c_args.auto_push,
                                                          groups)
                               /\ c_pc' = "returned"
                               /\ UNCHANGED <<pc, auto_push>>
  /\ UNCHANGED <<checkout, refs, on, at, history, remote, current_branch,
                 successful_commits, i, j, result, out, cmds, c_args, c_env,
                 c_cmds, gvars, xvars, tvars>>

\* the executor returned: its return value is dropped and the tool returns
SplitReturn ==
  /\ c_pc = "executing"
  /\ pc = "done"
  /\ c_result' = SplitResult(c_args.dry_run, c_args.auto_push, commit_groups)
  /\ c_pc' = "returned"
  /\ UNCHANGED <<c_args, c_env, c_cmds, gvars, xvars, tvars, evars>>

NextTool ==
  \/ IntelligentCommitSplit
  \/ GetCurrentBranch
  \/ CreateBackup
  \/ CheckoutBack
  \/ ResetStaging
  \/ StageFile
  \/ CheckStaged
  \/ CommitGroupFiles
  \/ PushCommits
  \/ ReportBackup
  \/ SplitReturn

SpecTool == InitTool /\ [][NextTool]_vars

\* ------------------------------------------------------------------------
\* SpecCommit: the tool commit_and_push on a working tree of the gate
\* ------------------------------------------------------------------------
GitCmd(cmd, arg, rc) == [cmd |-> cmd, arg |-> arg, rc |-> rc]

\* git add <file>, or git add . when files is empty: the chosen entries
\* become staged; fails on a file that cannot be read
GitAddTree(tree, files) ==
  LET Chosen(e) == files = <<>> \/ e.file \in Range(files)
  IN IF \E k \in 1..Len(tree) : Chosen(tree[k]) /\ ~tree[k].readable
     THEN [rc |-> 128, tree |-> tree]
     ELSE [rc |-> 0,
           tree |-> [k \in 1..Len(tree) |->
                       IF Chosen(tree[k])
                       THEN [tree[k] EXCEPT !.kind = "staged"]
                       ELSE tree[k]]]

\* git commit -m <message>: the staged entries leave the tree; fails when
\* nothing is staged
GitCommitTree(tree) ==
  LET Staged(e) == e.kind = "staged"
      Rest(e) == e.kind # "staged"
  IN IF SelectSeq(tree, Staged) = <<>> THEN [rc |-> 1, tree |-> tree]
     ELSE [rc |-> 0, tree |-> SelectSeq(tree, Rest)]

CommitError(error) == [success |-> FALSE, error |-> error]

SplitTriggered(threshold_check) ==
  [success |-> TRUE, action |-> "intelligent_split_triggered",
   total_changes |-> threshold_check.total_changes,
   next_step |-> "intelligent_commit_split"]

RegularCommit(args) ==
  [success |-> TRUE, action |-> "regular_commit",
   commit_message |-> args.commit_message,
   files_committed |-> IF args.files = <<>> THEN <<"all changes">>
                       ELSE args.files,
   pushed |-> args.auto_push]

InitCommit ==
  /\ c_pc = "call"
  /\ c_args \in [commit_message : {"wip"}, files : {<<>>, <<"a.py">>},
                 auto_push : BOOLEAN, force_intelligent_split : BOOLEAN]
  /\ t_tree \in GateTrees
  /\ c_env = [tree |-> t_tree]
  /\ c_cmds = <<>>
  /\ c_result = <<>>
  /\ t_pc = "idle" /\ t_threshold = 0 /\ t_report = <<>>
  /\ GroupIdle /\ ExtractIdle /\ ExecIdle

\* git status --porcelain and the check for an empty answer
CommitStatus ==
  /\ c_pc = "call"
  /\ \E ok \in BOOLEAN :
       IF ~ok
       THEN /\ c_cmds' = Append(c_cmds, GitCmd("status", "", 128))
            /\ c_result' = CommitError("Git status check failed")
            /\ c_pc' = "returned"
       ELSE /\ c_cmds' = Append(c_cmds, GitCmd("status", "", 0))
            /\ IF t_tree = <<>>
               THEN /\ c_result' = CommitError("No changes to commit")
                    /\ c_pc' = "returned"
               ELSE /\ c_pc' = IF ~c_args.force_intelligent_split
                               THEN "gate" ELSE "stage"
                    /\ UNCHANGED c_result
  /\ UNCHANGED <<c_args, c_env, gvars, xvars, tvars, evars>>

\* `if not force_intelligent_split`: the threshold check with 1000
CommitGate ==
  /\ c_pc = "gate"
  /\ \E ok \in BOOLEAN :
       LET threshold_check ==
             check_changes_threshold(t_tree, DefaultThreshold, ok)
       IN /\ t_report' = threshold_check
          /\ t_threshold' = DefaultThreshold
          /\ t_pc' = "done"
          /\ IF ~threshold_check.success
             THEN c_result' = threshold_check /\ c_pc' = "returned"
             ELSE IF threshold_check.exceeds_threshold
             THEN /\ c_result' = SplitTriggered(threshold_check)
                  /\ c_pc' = "returned"
             ELSE c_pc' = "stage" /\ UNCHANGED c_result
  /\ UNCHANGED <<t_tree, c_args, c_env, c_cmds, gvars, xvars, evars>>

\* git add <file> for the files given, or git add .
CommitStage ==
  /\ c_pc = "stage"
  /\ LET r == GitAddTree(t_tree, c_args.files)
         arg == IF c_args.files = <<>> THEN "." ELSE c_args.files[1]
     IN \E ok \in BOOLEAN :
          IF ok /\ r.rc = 0
          THEN /\ c_cmds' = Append(c_cmds, GitCmd("add", arg, 0))
               /\ t_tree' = r.tree
               /\ c_pc' = "commit"
               /\ UNCHANGED c_result
          ELSE /\ c_cmds' = Append(c_cmds, GitCmd("add", arg, 128))
               /\ c_result' = CommitError("Git operation failed")
               /\ c_pc' = "returned"
               /\ UNCHANGED t_tree
  /\ UNCHANGED <<t_pc, t_threshold, t_report, c_args, c_env, gvars, xvars,
                 evars>>

\* git commit -m <commit_message>, and the return when no push is asked for
CommitCreate ==
  /\ c_pc = "commit"
  /\ LET r == GitCommitTree(t_tree)
     IN \E ok \in BOOLEAN :
          IF ok /\ r.rc = 0
          THEN /\ c_cmds' = Append(c_cmds,
                                   GitCmd("commit", c_args.commit_message, 0))
               /\ t_tree' = r.tree
               /\ IF c_args.auto_push
                  THEN c_pc' = "push" /\ UNCHANGED c_result
                  ELSE /\ c_result' = RegularCommit(c_args)
                       /\ c_pc' = "returned"
          ELSE /\ c_cmds' = Append(c_cmds,
                                   GitCmd("commit", c_args.commit_message, 1))
               /\ c_result' = CommitError("Git operation failed")
               /\ c_pc' = "returned"
               /\ UNCHANGED t_tree
  /\ UNCHANGED <<t_pc, t_threshold, t_report, c_args, c_env, gvars, xvars,
                 evars>>

\* git push, and the return
CommitPush ==
  /\ c_pc = "push"
  /\ \E ok \in BOOLEAN :
       IF ok
       THEN /\ c_cmds' = Append(c_cmds, GitCmd("push", "", 0))
            /\ c_result' = RegularCommit(c_args)
       ELSE /\ c_cmds' = Append(c_cmds, GitCmd("push", "", 1))
            /\ c_result' = CommitError("Git operation failed")
  /\ c_pc' = "returned"
  /\ UNCHANGED <<c_args, c_env, gvars, xvars, tvars, evars>>

NextCommit ==
  \/ CommitStatus
  \/ CommitGate
  \/ CommitStage
  \/ CommitCreate
  \/ CommitPush

SpecCommit == InitCommit /\ [][NextCommit]_vars

\* ========================================================================
\* Properties
\* ========================================================================

\* C1: partition property of grouping. For every deduplicated list of
\* changes given to group_changes_heuristic, the group sizes sum to the
\* number of changes, every change is in some group, and no file path is
\* in two different groups.
C1_Partition ==
  g_pc = "done" =>
    /\ SumSeq([k \in 1..Len(g_groups) |-> Len(g_groups[k].files)])
         = Len(g_changes)
    /\ \A c \in 1..Len(g_changes) :
         \E k \in 1..Len(g_groups) :
           \E m \in 1..Len(g_groups[k].files) :
             g_groups[k].files[m] = g_changes[c]
    /\ \A k, m \in 1..Len(g_groups) :
         k # m =>
           {f.file_path : f \in Range(g_groups[k].files)}
             \cap {f.file_path : f \in Range(g_groups[m].files)} = {}

\* two changes that share a group, one of them listed by two commands
C1_Witness ==
  /\ g_pc = "done"
  /\ Len(g_groups) = 1
  /\ Len(g_groups[1].files) = 2
  /\ Len(g_names[1].stdout) + Len(g_names[2].stdout) = 3

\* C2: exceeds_threshold is true exactly when total_changes > threshold
\* (equality gives false), and the recommendation is
\* intelligent_commit_split exactly when exceeds_threshold is true, else
\* regular_commit.
C2_ThresholdVerdict ==
  (t_pc = "done" /\ t_report.success) =>
    /\ t_report.exceeds_threshold
         <=> (t_report.total_changes > t_threshold)
    /\ t_report.recommendation =
         IF t_report.total_changes > t_threshold
         THEN "intelligent_commit_split" ELSE "regular_commit"

\* the boundary: a non-zero total equal to the threshold
C2_Witness ==
  /\ t_pc = "done" /\ t_report.success
  /\ t_report.total_changes = t_threshold
  /\ t_threshold > 0
  /\ t_report.recommendation = "regular_commit"

\* the lines git reports as added plus removed over the whole tree, an
\* untracked file adding every line of its text
TreeTotal(tree) ==
  SumSeq([k \in 1..Len(tree) |-> tree[k].added + tree[k].removed])

\* C3: the gate's total_changes is the sum of lines added plus lines
\* removed over every changed file: unstaged-modified, staged and
\* untracked files alike.
C3_TotalIsSumOverAllFiles ==
  (t_pc = "done" /\ t_report.success) =>
    t_report.total_changes = TreeTotal(t_tree)

\* the subcommands that decide the classification of the k-th change
\* answered for the checkout as it is
FaithfulClassify(k) ==
  LET p == x_changes[k].file_path
  IN /\ x_procs[k].ls = GitLsFiles(x_checkout, p)
     /\ x_procs[k].show1 = GitShowHead(x_checkout, p)

\* C4: determine_change_type classifies by index membership against
\* presence at HEAD: in the index and absent at HEAD is 'added', absent from
\* the index and present at HEAD is 'deleted', everything else 'modified'.
C4_ClassifiedByIndexAndHead ==
  \A k \in 1..Len(x_changes) :
    LET p == x_changes[k].file_path
        inIndex == x_checkout.index[p] # "absent"
        atHead == x_checkout.head[p] # "absent"
    IN FaithfulClassify(k) =>
         x_changes[k].change_type =
           IF inIndex /\ ~atHead THEN "added"
           ELSE IF ~inIndex /\ atHead THEN "deleted"
           ELSE "modified"

\* C5: every FileChange of extract_changes has no before_content when it
\* is 'added' and no after_content when it is 'deleted', whatever the
\* subcommands return.
C5_AbsentContent ==
  \A k \in 1..Len(x_changes) :
    /\ x_changes[k].change_type = "added"
         => x_changes[k].before_content = None
    /\ x_changes[k].change_type = "deleted"
         => x_changes[k].after_content = None

\* a 'deleted' change whose path has content in the index, next to an
\* 'added' change
C5_Witness ==
  /\ x_pc = "done"
  /\ \E k, m \in 1..Len(x_changes) :
       /\ x_changes[k].change_type = "deleted"
       /\ x_checkout.index[x_changes[k].file_path] # "absent"
       /\ x_changes[m].change_type = "added"
       /\ x_checkout.wt[x_changes[m].file_path] # "absent"

\* the diff lines that add (sign "+") or remove (sign "-") a line: the
\* lines of the hunk, which follow the "@@" line
HunkLines(lines, sign) ==
  LET hunk == {k \in 1..Len(lines) : lines[k] = <<"@", "@">>}
  IN {k \in 1..Len(lines) :
        /\ \E h \in hunk : h < k
        /\ StartsWith(lines[k], <<sign>>)}

\* C6: an untracked file (empty per-path diff) has total_lines_added = the
\* line count of its after_content and total_lines_removed = 0; a file
\* with a diff has the numbers of diff lines starting with '+' / '-', the
\* '+++' / '---' header lines excluded.
C6_LineCounts ==
  \A k \in 1..Len(x_changes) :
    LET ch == x_changes[k]
        p == ch.file_path
        untracked == /\ x_checkout.index[p] = "absent"
                     /\ x_checkout.wt[p] # "absent"
    IN x_procs[k] = FileProcs(x_checkout, p) =>
         IF untracked
         THEN /\ ch.total_lines_added
                   = Len(BlobLines(ch.after_content[1]))
              /\ ch.total_lines_removed = 0
         ELSE /\ ch.total_lines_added
                   = Cardinality(HunkLines(ch.diff_content, "+"))
              /\ ch.total_lines_removed
                   = Cardinality(HunkLines(ch.diff_content, "-"))

\* the lines printed at the head of the loop body, one per attempt
Headers ==
  LET H(l) == l.msg = "Processing Group"
  IN SelectSeq(out, H)

\* the lines that report how group k ended
Outcomes(k) ==
  {n \in 1..Len(out) :
     /\ out[n].num = k
     /\ out[n].msg \in {"Created commit", "No changes to commit for group",
                        "Error creating commit for group"}}

Printed(msg) == \E n \in 1..Len(out) : out[n].msg = msg

PrintedFor(msg, k) ==
  \E n \in 1..Len(out) : out[n].msg = msg /\ out[n].num = k

Issued(names) == \E n \in 1..Len(cmds) : cmds[n].cmd \in names

\* C7: a group for which nothing is staged after the staging step is
\* skipped: no commit is made, the group is not reported as failed, the
\* successful-commit counter keeps its value and the run goes on with the
\* next group.
C7_EmptyGroupSkipped ==
  [][ ( /\ pc = "check"
        /\ GitDiffCachedNames(checkout).stdout = <<>>
        /\ cmds' = Append(cmds, Cmd("diff --cached", 0)) )
      => /\ successful_commits' = successful_commits
         /\ history' = history
         /\ checkout' = checkout
         /\ out' = Append(out, Line("No changes to commit for group", i,
                                    commit_groups[i].feature_name))
         /\ i' = i + 1
         /\ pc' = IF i < Len(commit_groups) THEN "reset" ELSE "summary"
    ]_vars

\* the first group was skipped, the second one committed afterwards
C7_Witness ==
  /\ pc = "done"
  /\ PrintedFor("No changes to commit for group", 1)
  /\ PrintedFor("Created commit", 2)
  /\ successful_commits = 1

\* C8: once the backup branch exists, every group is attempted exactly once
\* and in list order whatever happened to the groups before it; a failing
\* reset, stage or commit fails only its own group.
C8_FailureIsolation ==
  /\ \A k \in 1..Len(Headers) : Headers[k].num = k
  /\ \A k \in 1..Len(commit_groups) : Cardinality(Outcomes(k)) <= 1
  /\ (pc = "done" /\ Printed("Created backup branch")) =>
       /\ Len(Headers) = Len(commit_groups)
       /\ \A k \in 1..Len(commit_groups) : Cardinality(Outcomes(k)) = 1

\* the first group failed and the second one was committed
C8_Witness ==
  /\ pc = "done"
  /\ PrintedFor("Error creating commit for group", 1)
  /\ PrintedFor("Created commit", 2)
  /\ Len(history) = 1

\* C9: when reading the current branch, creating the backup branch or
\* switching back fails, the run ends at once and reports failure: no
\* reset, stage, commit or push is issued.
C9_SetupFailureIsFatal ==
  (Printed("Error getting current branch")
     \/ Printed("Error creating backup branch")) =>
    /\ pc = "done"
    /\ result = FALSE
    /\ ~Issued({"reset", "add", "rm", "diff --cached", "commit", "push"})
    /\ history = <<>>

\* the backup branch was created and switching back failed
C9_Witness ==
  /\ pc = "done"
  /\ cmds = << Cmd("rev-parse", 0), Cmd("checkout -b", 0),
               Cmd("checkout", 1) >>
  /\ commit_groups # <<>>

\* C10: every run that created the backup branch ends by reporting the
\* backup branch name and the rollback command, however many groups were
\* committed, skipped or failed and whether a requested push succeeded or
\* failed.
C10_RollbackAlwaysReported ==
  (pc = "done" /\ Printed("Created backup branch")) =>
    /\ Len(out) >= 2
    /\ out[Len(out) - 1] = Line("Backup branch created", 0, backup_branch)
    /\ out[Len(out)] = Line("To revert all changes: git reset --hard", 0,
                            backup_branch)

\* the positions of the push in the list of subcommands issued
Pushes == {n \in 1..Len(cmds) : cmds[n].cmd = "push"}

\* C11: the push is attempted if and only if auto_push was requested and
\* at least one group was committed in this run, and only after every group
\* has been processed: it is the last subcommand of the run, never one
\* between two groups.
C11_PushOnlyAfterAllGroups ==
  /\ Pushes # {} =>
       /\ auto_push
       /\ Len(history) > 0
       /\ Pushes = {Len(cmds)}
       /\ \A k \in 1..Len(commit_groups) : Cardinality(Outcomes(k)) = 1
       /\ pc \in {"report", "done"}
  /\ (pc = "done" /\ Printed("Created backup branch")) =>
       (Pushes # {} <=> (auto_push /\ Len(history) > 0))

\* a push after two groups, the first of which failed
C11_Witness ==
  /\ pc = "done"
  /\ Pushes # {}
  /\ Len(commit_groups) = 2
  /\ PrintedFor("Error creating commit for group", 1)
  /\ PrintedFor("Created commit", 2)

\* C12: when the final push fails, the failure is reported and every commit
\* of the run stays where it is: the checked-out branch and its head, the
\* backup branch, the commits created, the remote and the working tree are
\* exactly as they were just before the push was attempted.
C12_FailedPushKeepsCommits ==
  [][ cmds' = Append(cmds, Cmd("push", 1))
      => /\ result' = FALSE
         /\ \E n \in 1..Len(out') : out'[n].msg = "Error pushing commits"
         /\ UNCHANGED <<checkout, refs, on, at, history, remote>>
    ]_vars

\* the push failed after two commits on the original branch
C12_Witness ==
  /\ pc = "done"
  /\ cmds # <<>> /\ cmds[Len(cmds)] = Cmd("push", 1)
  /\ Len(history) = 2
  /\ on = "main" /\ refs["main"] = 3 /\ refs[backup_branch] = 1
  /\ result = FALSE

\* the commit that was checked out when the run started: every commit of
\* the run is a child of the one before it
StartCommit == at - Len(history)

\* C14: restorability. In every state during or after a run, whatever
\* failed, the backup branch the run reported exists and still points at
\* the commit that was checked out when the run started, so that
\* `git reset --hard <backup>` undoes every commit of the run.
C14_BackupKeepsStartCommit ==
  Printed("Created backup branch") =>
    /\ backup_branch \in DOMAIN refs
    /\ refs[backup_branch] = StartCommit

\* the run could not create its backup branch or could not use the checkout
NoBackupOrNoCheckout ==
  \/ c_env.git # "ok"
  \/ Printed("Error getting current branch")
  \/ Printed("Error creating backup branch")

\* C13: the split entry point reports failure if and only if the backup
\* branch could not be created or the checkout is not usable: a run that was
\* evaluated and created no commit reports success, a run whose backup
\* branch could not be created reports failure.
C13_FailureIffNoBackup ==
  (c_pc = "returned" /\ c_env.keys = "both") =>
    (c_result.success = FALSE <=> NoBackupOrNoCheckout)

\* C15: with dry_run = true the tool only analyses, for every value of
\* auto_push: the executor is never entered, no subcommand that changes the
\* checkout is issued, and branches, staging area, commits and remote keep
\* their values.
C15_DryRunOnlyAnalyses ==
  [][ c_args.dry_run
      => /\ pc = "idle" /\ pc' = "idle"
         /\ cmds' = <<>>
         /\ UNCHANGED <<checkout, refs, on, at, history, remote>>
    ]_vars

\* a dry run with auto_push = true that found two groups
C15_Witness ==
  /\ c_pc = "returned"
  /\ c_args.dry_run /\ c_args.auto_push
  /\ c_result.success /\ c_result.dry_run
  /\ c_result.commit_groups_count = 2
  /\ cmds = <<>>

\* C16: with dry_run = false the executor is run whenever there are
\* changes, whether auto_push is true or false.
C16_ExecutesWithoutDryRun ==
  (c_pc = "returned" /\ ~c_args.dry_run /\ c_result.success
     /\ c_result.commit_groups_count > 0)
    => Issued({"rev-parse"})

\* C17: generate_commit_message always returns a title and a message and
\* never raises: a reply with no line that starts with 'TITLE:', or with
\* that line empty, gives the title 'feat: ' + key; a reply with no
\* 'MESSAGE:' line gives the message 'Changes related to ' + key; a failed
\* call gives both.
C17_NarratorFallbacks ==
  g_pc = "done" =>
    \A k \in 1..Len(g_groups) :
      LET key == g_groups[k].feature_name
          lines == g_reply.lines
          T == {n \in 1..Len(lines) : lines[n].tag = "TITLE:"}
          M == {n \in 1..Len(lines) : lines[n].tag = "MESSAGE:"}
      IN /\ g_groups[k].commit_title \notin {<<>>, <<"">>}
         /\ g_groups[k].commit_message \notin {<<>>, <<"">>}
         /\ (g_reply.raised \/ \A n \in T : lines[n].text = "")
              => g_groups[k].commit_title = <<"feat: ", key>>
         /\ (g_reply.raised \/ M = {})
              => g_groups[k].commit_message = <<"Changes related to ", key>>

\* a reply with a title and no 'MESSAGE:' line: the title is kept and the
\* message falls back
C17_Witness ==
  /\ g_pc = "done"
  /\ Len(g_groups) = 2
  /\ ~g_reply.raised
  /\ \A k \in 1..Len(g_groups) :
       /\ g_groups[k].commit_title = <<"fix: x">>
       /\ g_groups[k].commit_message
            = <<"Changes related to ", g_groups[k].feature_name>>

\* the entries of the report for the file of the k-th entry of the tree
ReportedAs(k) ==
  LET F(f) == f.file = t_tree[k].file
  IN SelectSeq(t_report.changed_files, F)

CommitsCreated ==
  LET C(c) == c.cmd = "commit" /\ c.rc = 0
  IN SelectSeq(c_cmds, C)

\* C19: commit_and_push with force_intelligent_split = false: when the
\* uncommitted changes of the working tree exceed 1000 lines, nothing is
\* staged or committed and the result is a success with action
\* 'intelligent_split_triggered'; otherwise exactly one commit with the
\* user's message is created and the action is 'regular_commit'. A
\* successful result has no other action.
C19_LargeChangesAreNotCommitted ==
  (c_pc = "returned" /\ ~c_args.force_intelligent_split
     /\ c_result.success) =>
    IF TreeTotal(c_env.tree) > DefaultThreshold
    THEN /\ c_result.action = "intelligent_split_triggered"
         /\ \A n \in 1..Len(c_cmds) : c_cmds[n].cmd \notin {"add", "commit"}
    ELSE /\ c_result.action = "regular_commit"
         /\ Len(CommitsCreated) = 1
         /\ CommitsCreated[1].arg = c_args.commit_message

\* C20: commit_and_push with force_intelligent_split = true takes the
\* intelligent-split path even when the changes do not exceed 1000 lines:
\* no single regular commit is created.
C20_ForcedSplit ==
  (c_pc = "returned" /\ c_args.force_intelligent_split
     /\ c_result.success) =>
    /\ c_result.action = "intelligent_split_triggered"
    /\ CommitsCreated = <<>>

\* C21: each run creates a backup branch of its own: the name a run chooses
\* is the name of no branch that an earlier run against the same checkout
\* left, so no run stops because its backup name already exists.
C21_BackupNameIsFresh ==
  pc = "create_backup" => backup_branch \notin DOMAIN refs

\* C22: after the backup step the checkout is back on the branch (or HEAD
\* position) it was on at the start, the backup branch points at the commit
\* checked out at the start, and through the loop and the push the
\* checked-out branch stays the same and no commit of the run is added to
\* the backup branch.
C22_CommitsLandOnOriginalBranch ==
  Printed("Created backup branch") =>
    /\ on = current_branch
    /\ refs[backup_branch] = at - Len(history)
    /\ \A n \in 1..Len(history) : history[n].branch # backup_branch

\* the paths of the files of group k
GroupPaths(k) == {f.file_path : f \in Range(commit_groups[k].files)}

\* C23: every commit of the executor holds only files of its own group:
\* when the commit subcommand is issued for a group, the staged paths are a
\* subset of the group's paths, also after an earlier group staged files
\* and then failed.
C23_CommitHoldsOnlyOwnGroup ==
  /\ pc = "commit" =>
       Range(GitDiffCachedNames(checkout).stdout) \subseteq GroupPaths(i)
  /\ \A n \in 1..Len(history) :
       history[n].paths \subseteq GroupPaths(history[n].group)

\* the first group staged its file and failed at its commit, the second
\* group was committed
C23_Witness ==
  /\ pc = "done"
  /\ Len(commit_groups) = 2
  /\ PrintedFor("Staged", 1)
  /\ PrintedFor("Error creating commit for group", 1)
  /\ Len(history) = 1
  /\ history[1].group = 2
  /\ history[1].paths = GroupPaths(2)

\* the key of the alias set that holds the lower-cased segment s, "" when
\* none does
AliasKey(s) ==
  CASE s \in {"frontend", "client", "ui", "src", "components"} -> "frontend"
    [] s \in {"backend", "server", "api", "services"} -> "backend"
    [] s \in {"docs", "documentation", "readme"} -> "documentation"
    [] s \in {"tests", "test", "spec"} -> "testing"
    [] s \in {"config", "conf", "settings"} -> "configuration"
    [] s \in {"scripts", "tools", "utils"} -> "utilities"
    [] OTHER -> ""

\* the key the extension rules give
ExtensionKey(ext) ==
  CASE ext \in {".py", ".js", ".ts", ".jsx", ".tsx", ".java", ".cpp", ".c"}
         -> "code"
    [] ext \in {".md", ".txt", ".rst"} -> "documentation"
    [] ext \in {".json", ".yaml", ".yml", ".toml", ".ini"} -> "configuration"
    [] OTHER -> "other"

\* the changes of the grouping run with the key of the group each is in
Keyed ==
  UNION { { [path |-> f.file_path, key |-> g_groups[k].feature_name] :
              f \in Range(g_groups[k].files) } : k \in 1..Len(g_groups) }

\* C24: a path whose first segment, compared case-insensitively,
\* is in an alias set gets that set's key whatever its extension and however
\* many segments it has; only otherwise the extension decides, and only
\* otherwise the key is 'other'.
C24_FirstSegmentDecides ==
  g_pc = "done" =>
    \A c \in Keyed :
      LET alias == AliasKey(Lower(c.path.parts[1]))
      IN c.key = IF alias # "" THEN alias
                 ELSE ExtensionKey(Lower(c.path.suffix))

\* the keys of the groups in their order, each with the paths of its files
\* in their order
Partition(groups) ==
  [k \in 1..Len(groups) |->
     [key |-> groups[k].feature_name,
      paths |-> [m \in 1..Len(groups[k].files) |->
                   groups[k].files[m].file_path]]]

\* C25: the partition does not depend on the semantic collaborator: for
\* the changes of the run, whatever the memory search returns (summaries,
\* empty results, exceptions), the analysis gives the same group keys in the
\* same order with the same files in each group.
C25_PartitionIgnoresSearch ==
  g_pc = "done" =>
    \A other \in SearchResults :
      Partition(analyze_semantic_relationships(
                  g_changes, other,
                  [k \in GroupKeys |-> g_reply]).commit_groups)
        = Partition(g_groups)

\* a run with two groups in which the search returned summaries
C25_Witness ==
  /\ g_pc = "done"
  /\ Len(g_groups) = 2
  /\ g_summary # <<>>
  /\ \E k \in 1..Len(g_search) : g_search[k].raised

\* C26: when the semantic collaborator returned a non-empty summary, the
\* narrator is called exactly once per group and each call receives that
\* summary together with the group's files and the group key.
C26_NarratorReceivesSummary ==
  (g_pc = "done" /\ g_summary # <<>>) =>
    /\ Len(g_calls) = Len(g_groups)
    /\ \A k \in 1..Len(g_calls) :
         /\ g_calls[k].feature_name = g_groups[k].feature_name
         /\ g_calls[k].file_changes = g_groups[k].files
         /\ g_calls[k].semantic_summary = g_summary

\* C27: extraction degrades per file and never aborts: when one subcommand
\* fails during extract_changes, only the data of the affected file is
\* missing and the changes found by the other subcommands are still
\* returned; in particular every path listed by an enumeration command
\* that succeeded has its change in the result.
C27_ExtractionDegradesPerFile ==
  x_pc = "done" =>
    \A k \in 1..3 :
      x_names[k].rc = 0 =>
        \A p \in Range(x_names[k].stdout) :
          \E m \in 1..Len(x_changes) : x_changes[m].file_path = p

\* C28: the number of commits a non-dry-run intelligent_commit_split
\* reports as created (commit_groups_count and the number in 'Successfully
\* created N logical commits') is the number of commits the executor
\* created in that run, and 'and pushed to remote' is reported only when
\* the push succeeded.
C28_ReportedCommitsAreReal ==
  (c_pc = "returned" /\ c_result.success /\ ~c_result.dry_run) =>
    /\ c_result.commit_groups_count = Len(history)
    /\ c_result.message.num = Len(history)
    /\ c_result.message.pushed
         => \E n \in 1..Len(cmds) : cmds[n] = Cmd("push", 0)

\* path p is in a commit of the run
Committed(p) == \E n \in 1..Len(history) : p \in history[n].paths

\* path p still differs from HEAD, in the staging area or on disk
StillChanged(p) ==
  \/ checkout.index[p] # checkout.head[p]
  \/ checkout.wt[p] # checkout.index[p]

\* C29: no step of the executor discards an uncommitted change: when
\* execute_commit_splitting has finished, the change of every file of
\* every group is in a commit of the run or still present in the checkout,
\* staged or unstaged, also for groups that failed or were skipped.
C29_NoChangeDiscarded ==
  pc = "done" =>
    \A k \in 1..Len(commit_groups) :
      \A p \in GroupPaths(k) : Committed(p) \/ StillChanged(p)

\* group k staged at least one of its files and then failed
FailedAfterStaging(k) ==
  /\ PrintedFor("Staged", k) \/ PrintedFor("Staged deletion", k)
  /\ PrintedFor("Error creating commit for group", k)

\* C30: when execute_commit_splitting returns, the staging area holds no
\* partial staging left by a failed group: the files of a group that failed
\* after some of them were staged, the last group in particular, are not
\* staged at the end of the run.
C30_NoStagingLeftBehind ==
  pc = "done" =>
    \A k \in 1..Len(commit_groups) :
      FailedAfterStaging(k) =>
        \A p \in GroupPaths(k) : checkout.index[p] = checkout.head[p]

====
